---- MODULE Spec2Model ----
(***************************************************************************)
(* Post API of src/server.js: three asynchronous Express route handlers    *)
(* (list, create, delete) over one Prisma model, `post`.                   *)
(*                                                                         *)
(* The requests in flight are a bag of records.  A handler runs in three   *)
(* steps, split at its only suspension point, the await on the Prisma call:*)
(*   Begin   the synchronous part up to the await (validation),            *)
(*   Settle  the datastore executes the call and the promise settles,      *)
(*   Resume  the continuation after the await (or the catch block).        *)
(* Steps of different requests interleave freely.                          *)
(*                                                                         *)
(* JavaScript values are tagged records; a JavaScript string is a sequence *)
(* of one-character strings, so that trim() and parseInt() are computed.   *)
(***************************************************************************)
EXTENDS Integers, Sequences, FiniteSets, Bags, TLC

\* ---------------------------------------------------------------- bounds
NumReq == 2
MaxId == 2
NumReqWide == 1
MaxIdWide == 1
MaxIdFields == 2
MaxContentLen == 2
MaxPathLen == 2

\* ------------------------------------------------------------- JS values
None == [t |-> "none"]
Undefined == [t |-> "undefined"]
Null == [t |-> "null"]
Str(s) == [t |-> "str", s |-> s]
Num(n) == [t |-> "num", n |-> n]
NaN == [t |-> "nan"]

\* All sequences over chars of length lo..hi
SeqsOf(chars, lo, hi) == UNION {[1..n -> chars] : n \in lo..hi}

\* whitespace that String.prototype.trim and parseInt strip
WhiteSpace == {" ", "\t", "\n"}

\* JS truthiness of a value
Truthy(v) ==
  CASE v.t = "str" -> Len(v.s) > 0
    [] v.t = "num" -> v.n # 0
    [] OTHER -> FALSE

RECURSIVE TrimStart(_)
TrimStart(s) ==
  IF s # <<>> /\ Head(s) \in WhiteSpace THEN TrimStart(Tail(s)) ELSE s

RECURSIVE TrimEnd(_)
TrimEnd(s) ==
  IF s # <<>> /\ s[Len(s)] \in WhiteSpace
  THEN TrimEnd(SubSeq(s, 1, Len(s) - 1))
  ELSE s

\* a trim() that strips nothing
NoTrim(s) == s

\* content.trim()
Trim(s) == TrimEnd(TrimStart(s))

\* value || null
OrNull(v) == IF Truthy(v) THEN v ELSE Null

\* ------------------------------------------------------------- parseInt
DecDigits == <<"0", "1", "2", "3", "4", "5", "6", "7", "8", "9">>
HexDigits == DecDigits \o <<"a", "b", "c", "d", "e", "f">>
HexUpper == <<"A", "B", "C", "D", "E", "F">>

\* value of character c as a digit, or -1
DigitVal(c) ==
  IF \E i \in 1..Len(HexDigits) : HexDigits[i] = c
  THEN (CHOOSE i \in 1..Len(HexDigits) : HexDigits[i] = c) - 1
  ELSE IF \E i \in 1..Len(HexUpper) : HexUpper[i] = c
  THEN (CHOOSE i \in 1..Len(HexUpper) : HexUpper[i] = c) + 9
  ELSE -1

IsDigit(c, radix) == DigitVal(c) >= 0 /\ DigitVal(c) < radix

\* the longest prefix of s made of digits of the radix
RECURSIVE DigitPrefix(_, _)
DigitPrefix(s, radix) ==
  IF s # <<>> /\ IsDigit(Head(s), radix)
  THEN <<Head(s)>> \o DigitPrefix(Tail(s), radix)
  ELSE <<>>

RECURSIVE DigitsValue(_, _, _)
DigitsValue(s, radix, acc) ==
  IF s = <<>> THEN acc
  ELSE DigitsValue(Tail(s), radix, acc * radix + DigitVal(Head(s)))

\* parseInt(string) with no radix argument
ParseInt(str) ==
  LET s0 == TrimStart(str)
      neg == s0 # <<>> /\ Head(s0) = "-"
      s1 == IF s0 # <<>> /\ Head(s0) \in {"-", "+"} THEN Tail(s0) ELSE s0
      hex == Len(s1) >= 2 /\ s1[1] = "0" /\ s1[2] \in {"x", "X"}
      radix == IF hex THEN 16 ELSE 10
      s2 == IF hex THEN SubSeq(s1, 3, Len(s1)) ELSE s1
      ds == DigitPrefix(s2, radix)
      n == DigitsValue(ds, radix, 0)
  IN IF ds = <<>> THEN NaN ELSE Num(IF neg THEN 0 - n ELSE n)

IsNaN(v) == v.t = "nan"

\* ------------------------------------------------------------- inputs
ContentChars == {" ", "a"}
PathChars == {"1", "a", "-"}

Body(content, imageUrl, userId) ==
  [content |-> content, imageUrl |-> imageUrl, userId |-> userId]

\* request bodies that vary content: absent, null, numbers, strings
ContentPayloads ==
  {Body(c, Undefined, Undefined) :
     c \in {Undefined, Null, Num(0), Num(5)}
             \cup {Str(s) : s \in SeqsOf(ContentChars, 0, MaxContentLen)}}

\* request bodies that vary imageUrl and userId: absent, falsy, truthy
FieldPayloads ==
  {Body(Str(<<"a">>), i, u) :
     i \in {Undefined, Str(<<>>), Str(<<"u">>)},
     u \in {Undefined, Num(0), Num(7)}}

\* values of req.params.id: a path segment is never empty
Paths == SeqsOf(PathChars, 1, MaxPathLen)

\* the inputs of the specification that interleaves requests
CorePayloads == {Body(Str(<<" ", "a">>), Undefined, Undefined),
                 Body(Str(<<" ">>), Undefined, Undefined)}

CorePaths == {<<"1">>, <<"2">>, <<"a">>}

\* ------------------------------------------------------------- state
VARIABLES
  store,    \* the Post table: a set of Post records
  nextId,   \* the table's id sequence
  clock,    \* the datastore's clock, the source of createdAt
  req,      \* the requests in flight: a bag of request records
  rawOf,    \* history: id of a kept post -> the content of the request that created it
  removed,  \* history: ids of the records that left the table
  confirmed,\* history: id -> number of 200 answers to deletes of that id
  numReq,   \* the number of requests the model lets be in flight
  maxId,    \* the number of records the model lets the table create
  payloads, \* the request bodies the model draws from
  paths     \* the path values the model draws from

limits == <<numReq, maxId, payloads, paths>>
db == <<store, nextId, clock, rawOf, removed>>
vars == <<db, req, confirmed, limits>>

\* a request as it arrives
Fresh(kind, input) ==
  [kind |-> kind, pc |-> "begin", input |-> input, call |-> None,
   result |-> None, sent |-> <<>>,
   \* history, read by no handler:
   wrote |-> FALSE,   \* its persistence call changed the table
   took |-> {},       \* the records its persistence call removed
   existed |-> FALSE, \* its id was in the table when its call executed
   present |-> FALSE, \* its id was in the table when the request began
   seen |-> None]     \* what the table held when its query executed

InFlight == BagToSet(req)

\* request q becomes q2
Step(q, q2) == (req (-) SetToBag({q})) (+) SetToBag({q2})

Ids(S) == {p.id : p \in S}

\* ------------------------------------------------------ persistence layer
\* the id the datastore assigns to a new record
AssignedId == nextId

\* the createdAt the datastore may assign to a new record: its clock has
\* advanced since the last record was created, or has not
AssignedCreatedAt == {clock, clock + 1}

Ok(v) == [t |-> "ok", value |-> v]
Err(code) == [t |-> "error", code |-> code]

\* sequences listing every element of S once
Listings(S) ==
  {q \in [1..Cardinality(S) -> S] : \A i, j \in DOMAIN q : i # j => q[i] # q[j]}

\* orderBy: { createdAt: "asc" }
OrderedAsc(q) == \A i, j \in DOMAIN q : i < j => q[i].createdAt <= q[j].createdAt

\* orderBy: { createdAt: "desc" }
OrderedDesc(q) == \A i, j \in DOMAIN q : i < j => q[i].createdAt >= q[j].createdAt

\* prisma.post.findMany({orderBy: {createdAt: "desc"}}): the possible results
FindMany(S) == {q \in Listings(S) : OrderedDesc(q)}

\* prisma.post.create({data}): the record inserted
Created(data, now) ==
  [id |-> AssignedId, content |-> data.content, imageUrl |-> data.imageUrl,
   userId |-> data.userId, createdAt |-> now]

\* a delete whose where clause selects every record
MatchingAll(S, id) == S

\* prisma.post.delete({where: {id}}): the records the call removes
Matching(S, id) == {p \in S : p.id = id}

\* deleteMany in place of delete: no error when no record matches
DeleteOutcomeLenient(S, id) == Ok(None)

\* prisma.post.delete({where: {id}}): the outcome when the call reaches the table
DeleteOutcome(S, id) ==
  IF Matching(S, id) = {} THEN Err("P2025") ELSE Ok(None)

\* ------------------------------------------------------------- handlers
Send(q, status, body) ==
  [q EXCEPT !.sent = Append(@, [status |-> status, body |-> body])]

Finish(q) == [q EXCEPT !.pc = "done"]

\* if (!content): the validation without the trimmed comparison
ContentRejectedFalsyOnly(content) == ~Truthy(content)

\* if (!content || content.trim() === "")
ContentRejected(content) == ~Truthy(content) \/ Trim(content.s) = <<>>

\* content.trim() of a truthy value that is no string throws a TypeError
TrimThrows(content) == Truthy(content) /\ content.t # "str"

\* data: { content: content, ... }: the content stored as received
CreateDataUntrimmed(body) ==
  [content |-> body.content,
   imageUrl |-> OrNull(body.imageUrl),
   userId |-> OrNull(body.userId)]

\* data: { ..., imageUrl: imageUrl, userId: userId }: no default to null
CreateDataNoDefault(body) ==
  [content |-> Str(Trim(body.content.s)),
   imageUrl |-> body.imageUrl,
   userId |-> body.userId]

\* data: { content: content.trim(), imageUrl: imageUrl || null, userId: userId || null }
CreateData(body) ==
  [content |-> Str(Trim(body.content.s)),
   imageUrl |-> OrNull(body.imageUrl),
   userId |-> OrNull(body.userId)]

\* app.post("/api/posts"): from the request to the await
CreateBegin ==
  /\ BagCardinality(req) < numReq
  /\ \E body \in payloads :
       LET q == Fresh("create", body)
       IN req' = req (+) SetToBag({
            IF TrimThrows(body.content)
            THEN Finish(Send(q, 500, [error |-> "create failed"]))
            ELSE IF ContentRejected(body.content)
            THEN Finish(Send(q, 400, [error |-> "content is empty"]))
            ELSE [q EXCEPT !.pc = "awaiting", !.call = CreateData(body)]})
  /\ UNCHANGED <<db, confirmed, limits>>

\* the datastore executes prisma.post.create
CreateSettle ==
  \E q \in InFlight :
    /\ q.kind = "create"
    /\ q.pc = "awaiting"
    /\ \/ /\ nextId <= maxId
          /\ \E now \in AssignedCreatedAt :
               LET post == Created(q.call, now)
               IN /\ clock' = now
                  /\ store' = store \cup {post}
                  /\ rawOf' = [i \in DOMAIN rawOf \cup {post.id} |->
                                 IF i = post.id THEN q.input.content ELSE rawOf[i]]
                  /\ req' = Step(q, [q EXCEPT !.pc = "settled", !.result = Ok(post),
                                              !.wrote = (store' # store)])
          /\ nextId' = nextId + 1
          /\ UNCHANGED <<removed, confirmed, limits>>
       \/ /\ req' = Step(q, [q EXCEPT !.pc = "settled", !.result = Err("P1001")])
          /\ UNCHANGED <<db, confirmed, limits>>

\* app.post("/api/posts"): after the await
CreateResume ==
  \E q \in InFlight :
    /\ q.kind = "create"
    /\ q.pc = "settled"
    /\ req' = Step(q, IF q.result.t = "ok"
                      THEN Finish(Send(q, 201, q.result.value))
                      ELSE Finish(Send(q, 500, [error |-> "create failed"])))
    /\ UNCHANGED <<db, confirmed, limits>>

\* app.get("/api/posts"): from the request to the await
ListBegin ==
  /\ BagCardinality(req) < numReq
  /\ req' = req (+) SetToBag({[Fresh("list", None) EXCEPT !.pc = "awaiting"]})
  /\ UNCHANGED <<db, confirmed, limits>>

\* the datastore executes prisma.post.findMany
ListSettle ==
  \E q \in InFlight :
    /\ q.kind = "list"
    /\ q.pc = "awaiting"
    /\ \/ \E posts \in FindMany(store) :
            req' = Step(q, [q EXCEPT !.pc = "settled", !.result = Ok(posts),
                              !.seen = [table |-> store,
                                        live |-> rawOf,
                                        gone |-> {i \in DOMAIN confirmed :
                                                    confirmed[i] > 0}]])
       \/ req' = Step(q, [q EXCEPT !.pc = "settled", !.result = Err("P1001")])
    /\ UNCHANGED <<db, confirmed, limits>>

\* app.get("/api/posts"): after the await
ListResume ==
  \E q \in InFlight :
    /\ q.kind = "list"
    /\ q.pc = "settled"
    /\ req' = Step(q, IF q.result.t = "ok"
                      THEN Finish(Send(q, 200, q.result.value))
                      ELSE Finish(Send(q, 500, [error |-> "fetch failed"])))
    /\ UNCHANGED <<db, confirmed, limits>>

\* app.delete("/api/posts/:id"): from the request to the await
DeleteBegin ==
  /\ BagCardinality(req) < numReq
  /\ \E path \in paths :
       LET q == Fresh("delete", Str(path))
           id == ParseInt(path)
       IN req' = req (+) SetToBag({
            IF IsNaN(id)
            THEN Finish(Send(q, 400, [error |-> "invalid id"]))
            ELSE [q EXCEPT !.pc = "awaiting", !.call = id,
                          !.present = (id.n \in Ids(store))]})
  /\ UNCHANGED <<db, confirmed, limits>>

\* the datastore executes prisma.post.delete
DeleteSettle ==
  \E q \in InFlight :
    /\ q.kind = "delete"
    /\ q.pc = "awaiting"
    /\ \/ LET id == q.call.n
          IN /\ store' = store \ Matching(store, id)
             /\ removed' = removed \cup Ids(store \ store')
             /\ rawOf' = [i \in DOMAIN rawOf \ Ids(store \ store') |-> rawOf[i]]
             /\ req' = Step(q, [q EXCEPT !.pc = "settled",
                                         !.result = DeleteOutcome(store, id),
                                         !.wrote = (store' # store),
                                         !.took = store \ store',
                                         !.existed = (id \in Ids(store))])
             /\ UNCHANGED <<nextId, clock, confirmed, limits>>
       \/ /\ req' = Step(q, [q EXCEPT !.pc = "settled", !.result = Err("P1001"),
                                      !.existed = (q.call.n \in Ids(store))])
          /\ UNCHANGED <<db, confirmed, limits>>

\* a catch block that does not look at error.code
DeleteErrorStatusNoCode(error) == <<500>>

\* a catch block whose 404 branch does not return
DeleteErrorStatusNoReturn(error) ==
  IF error.code = "P2025" THEN <<404, 500>> ELSE <<500>>

\* the statuses the catch block of the delete handler answers an error with
DeleteErrorStatus(error) == IF error.code = "P2025" THEN <<404>> ELSE <<500>>

DeleteErrorBody(status) ==
  [error |-> IF status = 404 THEN "not found" ELSE "delete failed"]

RECURSIVE SendAll(_, _)
SendAll(q, statuses) ==
  IF statuses = <<>> THEN q
  ELSE SendAll(Send(q, Head(statuses), DeleteErrorBody(Head(statuses))),
               Tail(statuses))

\* app.delete("/api/posts/:id"): after the await
DeleteResume ==
  \E q \in InFlight :
    /\ q.kind = "delete"
    /\ q.pc = "settled"
    /\ IF q.result.t = "ok"
       THEN /\ req' = Step(q, Finish(Send(q, 200, [message |-> "deleted"])))
            /\ confirmed' = [i \in DOMAIN confirmed \cup {q.call.n} |->
                               IF i = q.call.n
                               THEN (IF i \in DOMAIN confirmed THEN confirmed[i] ELSE 0) + 1
                               ELSE confirmed[i]]
       ELSE /\ req' = Step(q, Finish(SendAll(q, DeleteErrorStatus(q.result))))
            /\ UNCHANGED confirmed
    /\ UNCHANGED <<db, limits>>

\* the response has been delivered: the exchange is over
Retire ==
  \E q \in InFlight :
    /\ q.pc = "done"
    /\ req' = req (-) SetToBag({q})
    /\ UNCHANGED <<db, confirmed, limits>>

Start(n, ids, bodies, segments) ==
  /\ store = {}
  /\ nextId = 1
  /\ clock = 0
  /\ req = EmptyBag
  /\ rawOf = <<>>
  /\ removed = {}
  /\ confirmed = <<>>
  /\ numReq = n
  /\ maxId = ids
  /\ payloads = bodies
  /\ paths = segments

\* the empty table at startup; requests interleave, drawn from a few inputs
Init == Start(NumReq, MaxId, CorePayloads, CorePaths)

\* the same, with every content value of the bounds
InitContent == Start(NumReqWide, MaxIdWide, ContentPayloads, {<<"1">>})

\* the same, with every imageUrl and userId value
InitFields == Start(NumReqWide, MaxIdFields, FieldPayloads, {<<"1">>})

\* the same, with every path value of the bounds
InitPaths ==
  Start(NumReqWide, MaxIdWide,
        {Body(Str(<<"a">>), Undefined, Undefined), Body(Undefined, Undefined, Undefined)},
        Paths)

Next ==
  \/ CreateBegin
  \/ CreateSettle
  \/ CreateResume
  \/ ListBegin
  \/ ListSettle
  \/ ListResume
  \/ DeleteBegin
  \/ DeleteSettle
  \/ DeleteResume
  \/ Retire

Spec == Init /\ [][Next]_vars

SpecContent == InitContent /\ [][Next]_vars

SpecFields == InitFields /\ [][Next]_vars

SpecPaths == InitPaths /\ [][Next]_vars

\* ------------------------------------------------------------- claims
Done(q) == q.pc = "done"

\* q has been answered once, with this status
Answered(q, status) == Done(q) /\ Len(q.sent) = 1 /\ q.sent[1].status = status

\* the persistence call of q executed against the table
Executed(q) == q.result # None /\ q.result # Err("P1001")

\* s is empty or holds only whitespace
Blank(s) == \A i \in DOMAIN s : s[i] \in WhiteSpace

Creates == {q \in InFlight : q.kind = "create"}
Lists == {q \in InFlight : q.kind = "list"}
Deletes == {q \in InFlight : q.kind = "delete"}

\* C1: no stored post has a content that is empty or only whitespace
C1_ContentNeverBlank ==
  \A p \in store : p.content.t = "str" /\ ~Blank(p.content.s)

\* a post is stored whose request carried a content with surrounding whitespace
C1_Witness ==
  \E q \in Creates :
    /\ Answered(q, 201)
    /\ q.input.content.s # q.result.value.content.s
    /\ q.result.value \in store

\* C2: a list whose query runs after a create succeeded, with no delete of the
\* post in between, returns the post exactly once, its content the trimmed input
C2_CreatedThenListed ==
  \A q \in Lists :
    Answered(q, 200) =>
      LET body == q.sent[1].body
      IN \A id \in DOMAIN q.seen.live :
           /\ Cardinality({i \in DOMAIN body : body[i].id = id}) = 1
           /\ \A i \in DOMAIN body : body[i].id = id =>
                  body[i].content = Str(Trim(q.seen.live[id].s))

\* a list answered after one post was created and kept and another deleted
C2_Witness ==
  \E q \in Lists :
    /\ Answered(q, 200)
    /\ DOMAIN q.seen.live # {}
    /\ q.seen.gone # {}
    /\ Len(q.sent[1].body) = 1

\* C3: a successful list response holds every post the table held when the
\* query ran, each once, newest createdAt first; it is empty for an empty table
C3_ListCompleteAndOrdered ==
  \A q \in Lists :
    Answered(q, 200) =>
      LET body == q.sent[1].body
      IN /\ Len(body) = Cardinality(q.seen.table)
         /\ {body[i] : i \in DOMAIN body} = q.seen.table
         /\ \A i \in 1..(Len(body) - 1) : body[i].createdAt >= body[i + 1].createdAt
         /\ (q.seen.table = {} => body = <<>>)

\* a list of two posts created at different times, the later one first
C3_Witness ==
  \E q \in Lists :
    /\ Answered(q, 200)
    /\ Len(q.sent[1].body) = 2
    /\ q.sent[1].body[1].createdAt > q.sent[1].body[2].createdAt
    /\ q.sent[1].body[1].id > q.sent[1].body[2].id

\* content is missing, the empty string, or only whitespace
MissingOrBlank(content) ==
  content = Undefined \/ (content.t = "str" /\ Blank(content.s))

\* C4: a create whose content is missing, empty or only whitespace is answered
\* 400, makes no persistence call and leaves the table as it was
C4_BlankContentRejected ==
  \A q \in Creates :
    MissingOrBlank(q.input.content) =>
      /\ Answered(q, 400)
      /\ q.call = None
      /\ q.result = None
      /\ ~q.wrote

\* a whitespace-only content was rejected while the table holds a post
C4_Witness ==
  \E q \in Creates :
    /\ q.input.content.t = "str"
    /\ q.input.content.s # <<>>
    /\ Blank(q.input.content.s)
    /\ Answered(q, 400)
    /\ store # {}

\* s is an integer numeral: an optional sign, then decimal digits only
IsIntegerText(s) ==
  LET d == IF s # <<>> /\ Head(s) \in {"-", "+"} THEN Tail(s) ELSE s
  IN d # <<>> /\ \A i \in DOMAIN d : IsDigit(d[i], 10)

\* C5: a delete whose path value is not an integer is answered 400 and makes
\* no persistence call; only an integer path value reaches the persistence layer
C5_OnlyIntegersReachPersistence ==
  \A q \in Deletes :
    ~IsIntegerText(q.input.s) => Answered(q, 400) /\ q.call = None

\* C6: a delete of an id the table does not hold when the call executes is
\* answered 404 and changes no post
C6_AbsentIdNotFound ==
  \A q \in Deletes :
    (Done(q) /\ Executed(q) /\ ~q.existed) =>
      /\ Answered(q, 404)
      /\ ~q.wrote
      /\ q.took = {}

\* the second delete of an id is answered 404 while another post is kept
C6_Witness ==
  \E q \in Deletes :
    /\ Answered(q, 404)
    /\ q.call.n \in removed
    /\ store # {}

\* C7: a delete of an id the table holds is answered 200 with the fixed
\* message and removes that post and no other; no list whose query runs after
\* the answer holds the post
C7_PresentIdDeleted ==
  /\ \A q \in Deletes :
       (Done(q) /\ Executed(q) /\ q.existed) =>
         /\ Answered(q, 200)
         /\ q.sent[1].body = [message |-> "deleted"]
         /\ Cardinality(q.took) = 1
         /\ \A p \in q.took : p.id = q.call.n
  /\ \A q \in Lists :
       Answered(q, 200) =>
         \A i \in DOMAIN q.sent[1].body : q.sent[1].body[i].id \notin q.seen.gone

\* a delete answered 200 with another post kept, and a later list without it
C7_Witness ==
  /\ \E q \in Deletes : Answered(q, 200) /\ store # {}
  /\ \E q \in Lists :
       Answered(q, 200) /\ q.seen.gone # {} /\ q.sent[1].body # <<>>

\* C8: a successful create with imageUrl and userId absent or falsy stores both
\* as null and is answered 201 with the created post, id and createdAt
\* included; no other post of the table has its id
C8_DefaultsAndCreated ==
  \A q \in Creates :
    (q.result # None /\ q.result.t = "ok"
       /\ ~Truthy(q.input.imageUrl) /\ ~Truthy(q.input.userId)) =>
      LET post == q.result.value
      IN /\ post.imageUrl = Null
         /\ post.userId = Null
         /\ {"id", "createdAt"} \subseteq DOMAIN post
         /\ \A p \in store : p.id = post.id => p = post
         /\ Done(q) => Answered(q, 201) /\ q.sent[1].body = post

\* a create with an empty imageUrl and a zero userId answered 201, its post
\* stored beside another one
C8_Witness ==
  \E q \in Creates :
    /\ Answered(q, 201)
    /\ q.input.imageUrl = Str(<<>>)
    /\ q.input.userId = Num(0)
    /\ q.result.value \in store
    /\ Cardinality(store) = 2

AllowedStatus(kind) ==
  CASE kind = "list" -> {200, 500}
    [] kind = "create" -> {201, 400, 500}
    [] kind = "delete" -> {200, 400, 404, 500}

\* C9: a request is answered once, when its handler ends, with a status of its
\* operation; a persistence failure other than delete's P2025 gives 500; a
\* request answered 400, 404 or 500 changed no post
C9_OneResponsePerRequest ==
  \A q \in InFlight :
    /\ ~Done(q) => q.sent = <<>>
    /\ Done(q) =>
         /\ Len(q.sent) = 1
         /\ q.sent[1].status \in AllowedStatus(q.kind)
         /\ (q.sent[1].status \in {200, 201}) <=> (q.result # None /\ q.result.t = "ok")
         /\ (q.result # None /\ q.result.t = "error"
               /\ ~(q.kind = "delete" /\ q.result.code = "P2025"))
              => q.sent[1].status = 500
         /\ q.sent[1].status \in {400, 404, 500} => ~q.wrote /\ q.took = {}

\* a delete answered 404 and a request answered 500 after a persistence failure
C9_Witness ==
  /\ \E q \in Deletes : Answered(q, 404)
  /\ \E q \in InFlight : Answered(q, 500) /\ q.result = Err("P1001")

\* 200 answers, sent or about to be sent, to deletes of id
Wins(id) ==
  (IF id \in DOMAIN confirmed THEN confirmed[id] ELSE 0)
    + BagCardinality([q \in {d \in Deletes : d.call = Num(id) /\ d.pc = "settled"
                                              /\ d.result.t = "ok"}
                        |-> CopiesIn(q, req)])

\* C10: of the deletes of one id whose calls execute, at most one is answered
\* 200 and it removes that post only; each other one is answered 404, removes
\* nothing, and if the post was there when it began, one delete did win
C10_OneDeleteWins ==
  /\ \A id \in 1..(nextId - 1) : Wins(id) <= 1
  /\ \A q \in Deletes :
       (Done(q) /\ Executed(q)) =>
         \/ /\ Answered(q, 200)
            /\ Cardinality(q.took) = 1
            /\ \A p \in q.took : p.id = q.call.n
         \/ /\ Answered(q, 404)
            /\ q.took = {}
            /\ q.present => Wins(q.call.n) = 1

\* two deletes of one id, both begun while the post was there: one answered
\* 200, the other 404, and another post is kept
C10_Witness ==
  \E q1, q2 \in Deletes :
    /\ q1.call = q2.call
    /\ q1.present /\ q2.present
    /\ Answered(q1, 200)
    /\ Answered(q2, 404)
    /\ store # {}

====
